---- MODULE Spec2Model ----
(***************************************************************************)
(* A model of app/models.py of my-site: the permission bitmask and the     *)
(* role table (Role, Permission), the identity model (User,                *)
(* AnonymousUser), the signed, time-limited tokens (activation and auth)   *)
(* and the comments' derived fields (Comment.on_change_body).              *)
(*                                                                         *)
(* Python's None is written None (-1) where the value is a number (an id,  *)
(* a time: ids start at 1, times at 0) and "None" where it is a string.    *)
(***************************************************************************)
EXTENDS Integers, Sequences, FiniteSets, TLC

(* ------------------------------------------------------------------ *)
(* Bounds of the model                                                 *)
(* ------------------------------------------------------------------ *)
MaxTime == 2
MaxTtl == 1
MaxUsers == 1
MaxComments == 1

(* ------------------------------------------------------------------ *)
(* Values                                                              *)
(* ------------------------------------------------------------------ *)
None == -1
NoRole == "None"

\* class Permission
FOLLOW == 1
COMMENT == 2
WRITE == 4
MODERATE == 8
ADMIN == 16

PermBits == {FOLLOW, COMMENT, WRITE, MODERATE, ADMIN}

\* Permission arguments of can / has_permission: each bit, no bit, two bits.
PermArgs == PermBits \cup {0, FOLLOW + COMMENT}

\* The names insert_roles seeds, in the order its dict is iterated.
SeededNames == <<"user", "moderator", "admin">>

SeededPerms(r) ==
    CASE r = "user" -> <<FOLLOW, COMMENT>>
      [] r = "moderator" -> <<FOLLOW, COMMENT, MODERATE>>
      [] r = "admin" -> <<FOLLOW, COMMENT, WRITE, MODERATE, ADMIN>>

default_role == "user"

\* Role names of the table: the seeded three and one that insert_roles does
\* not know.
RoleNames == {"user", "moderator", "admin", "guest"}

\* permissions= arguments of Role(...): not given (None), and a mask with a
\* defined bit (WRITE) and a bit outside the defined five (32).
PriorMasks == {None, 36}

\* current_app.config["ADMIN_ADDRESS"] and the email= arguments of User(...)
ADMIN_ADDRESS == "admin@example.com"
Emails == {ADMIN_ADDRESS, "brian@example.com"}

(* ------------------------------------------------------------------ *)
(* Integers: Python's & on non-negative ints                           *)
(* ------------------------------------------------------------------ *)
RECURSIVE BitAnd(_, _)
BitAnd(a, b) ==
    IF a = 0 \/ b = 0 THEN 0
    ELSE (a % 2) * (b % 2) + 2 * BitAnd(a \div 2, b \div 2)

(* ------------------------------------------------------------------ *)
(* Role                                                                *)
(* ------------------------------------------------------------------ *)
\* A row of the role table that does not exist.
NoRow == [exists |-> FALSE, permissions |-> 0, default |-> FALSE]

\* Role.__init__: permissions that are None or 0 become 0.
Role_init(perms, dflt) ==
    [exists |-> TRUE,
     permissions |-> IF perms = None \/ perms = 0 THEN 0 ELSE perms,
     default |-> dflt]

\* has_permission testing for any common bit instead of containment.
has_permission_any(role, perm) == BitAnd(role.permissions, perm) # 0

has_permission(role, perm) == BitAnd(role.permissions, perm) = perm

add_permission(role, perm) ==
    IF ~has_permission(role, perm)
    THEN [role EXCEPT !.permissions = @ + perm]
    ELSE role

remove_permission(role, perm) ==
    IF has_permission(role, perm)
    THEN [role EXCEPT !.permissions = @ - perm]
    ELSE role

\* reset_permissions that leaves the mask as it is.
reset_permissions_noop(role) == role

reset_permissions(role) == [role EXCEPT !.permissions = 0]

\* for perm in roles[r]: role.add_permission(perm)
RECURSIVE AddAll(_, _)
AddAll(role, perms) ==
    IF perms = <<>> THEN role
    ELSE AddAll(add_permission(role, Head(perms)), Tail(perms))

\* One pass of insert_roles' loop body for the name r.
SeedRole(table, r) ==
    LET found == IF table[r].exists THEN table[r] ELSE Role_init(None, FALSE)
        filled == AddAll(reset_permissions(found), SeededPerms(r))
    IN [table EXCEPT ![r] = [filled EXCEPT !.default = (r = default_role)]]

\* for r in roles: ...
RECURSIVE SeedAll(_, _)
SeedAll(table, names) ==
    IF names = <<>> THEN table
    ELSE SeedAll(SeedRole(table, Head(names)), Tail(names))

insert_roles(table) == SeedAll(table, SeededNames)

(* ------------------------------------------------------------------ *)
(* User: the role given at construction, can, is_admin                 *)
(* ------------------------------------------------------------------ *)
\* Role.query.filter_by(name="admin").first(): the name is unique.
AdminQuery(table) == IF table["admin"].exists THEN {"admin"} ELSE {}

\* Role.query.filter_by(default=True): every row flagged default; first()
\* returns one of them (the query has no ORDER BY), or None.
DefaultQuery(table) == {n \in RoleNames : table[n].exists /\ table[n].default}

First(rows) == IF rows = {} THEN {NoRole} ELSE rows

\* User.__init__ that looks for the default role only.
User_init_roles_default_only(table, email, role) ==
    IF role # NoRole THEN {role} ELSE First(DefaultQuery(table))

\* User.__init__: the roles self.role may end with.
User_init_roles(table, email, role) ==
    IF role # NoRole THEN {role}
    ELSE LET afterAdmin == IF email = ADMIN_ADDRESS
                           THEN First(AdminQuery(table))
                           ELSE {NoRole}
         IN UNION {IF r # NoRole THEN {r} ELSE First(DefaultQuery(table))
                   : r \in afterAdmin}

\* A user object that was not constructed yet.
NoUser == [exists |-> FALSE, id |-> None, email |-> "None", role |-> NoRole,
           active |-> FALSE, pending |-> FALSE, password_hash |-> <<>>,
           last_seen |-> None, _last_seen |-> None]

\* password arguments, and the salts generate_password_hash may draw.
Passwords == {"abc", "xyz"}
Salts == {"salt1", "salt2"}

\* werkzeug.security.generate_password_hash(password): method$salt$digest,
\* the digest standing for the one-way hash of the salted password.
generate_password_hash(password, salt) ==
    <<"pbkdf2:sha256", salt, <<"digest", salt, password>>>>

\* The password setter keeping the plaintext.
User_password_set_plain(user, password, salt) ==
    [user EXCEPT !.password_hash = <<password>>]

\* @password.setter: self.password_hash = generate_password_hash(password)
User_password_set(user, password, salt) ==
    [user EXCEPT !.password_hash = generate_password_hash(password, salt)]

\* The password property: what reading it raises, whatever the user holds.
User_password_get(user) == "AttributeError"

\* self.role and self.role.has_permission(perm): None when the user has no
\* role (a Role object is truthy), else has_permission's bool.
User_can(table, user, perm) ==
    IF user.role = NoRole THEN "None"
    ELSE IF has_permission(table[user.role], perm) THEN "True" ELSE "False"

User_is_admin(table, user) == User_can(table, user, ADMIN)

AnonymousUser_can(permissions) == "False"

AnonymousUser_is_admin == "False"

\* Python's truth value of what can / is_admin return.
Truthy(v) == v = "True"

(* ------------------------------------------------------------------ *)
(* Tokens: itsdangerous.TimedJSONWebSignatureSerializer                *)
(* ------------------------------------------------------------------ *)
\* current_app.config["SECRET_KEY"]
SECRET_KEY == "SECRET_KEY"

\* A token is header.payload.signature: the header holds iat and exp, the
\* payload one key (confirm or id) and its value, and the signature is the
\* MAC under the secret of the header and the payload it was made for. A
\* token of kind "garbage" is a string that does not split into the three.
Sign(secret, key, val, iat, exp) == <<secret, key, val, iat, exp>>

\* s.dumps({key: val}) at time t, the serializer made with expires_in.
Dumps(secret, expires_in, key, val, t) ==
    [kind |-> "jws", key |-> key, val |-> val, iat |-> t,
     exp |-> t + expires_in,
     sig |-> Sign(secret, key, val, t, t + expires_in)]

\* loads that does not look at exp.
BadData_without_expiry(secret, tok, t) ==
    \/ tok.kind # "jws"
    \/ tok.sig # Sign(secret, tok.key, tok.val, tok.iat, tok.exp)

\* loads that does not verify the signature.
BadData_without_signature(secret, tok, t) ==
    \/ tok.kind # "jws"
    \/ tok.exp < 0
    \/ tok.exp < t

\* s.loads(token) raises BadData: the token does not parse (BadPayload),
\* its signature is not the MAC of its content (BadSignature), its exp is
\* negative (BadHeader) or exp < now (SignatureExpired).
BadData(secret, tok, t) ==
    \/ tok.kind # "jws"
    \/ tok.sig # Sign(secret, tok.key, tok.val, tok.iat, tok.exp)
    \/ tok.exp < 0
    \/ tok.exp < t

\* data.get(key) of the loaded payload: None when the key is missing.
DataGet(tok, key) == IF tok.key = key THEN tok.val ELSE None

\* What a client can make of the token it holds without the secret: another
\* id in the payload, a later expiry in the header, or a string that is no
\* token; the signature stays the one it was given.
Alterations(tok) ==
    {[tok EXCEPT !.val = v] : v \in ({None} \cup 1..MaxUsers) \ {tok.val}}
    \cup {[tok EXCEPT !.exp = @ + 1]}
    \cup {[tok EXCEPT !.kind = "garbage"]}

(* ------------------------------------------------------------------ *)
(* Comment: the rendered body                                          *)
(* ------------------------------------------------------------------ *)
\* A body is a sequence of characters; "url" stands for the text of a bare
\* URL. The body= values of Comment(...) and of comment.body = ...
Bodies ==
    {<<"a">>, <<"b">>, <<"a", "\n", "\n", "b">>, <<" ", "a", "<", "b", "\n">>,
     <<"url">>, <<"a", " ", "url", "\n", "b">>}

Whitespace == {" ", "\n"}

\* str.strip()
RECURSIVE LStrip(_)
LStrip(str) ==
    IF str # <<>> /\ Head(str) \in Whitespace THEN LStrip(Tail(str)) ELSE str

RECURSIVE RStrip(_)
RStrip(str) ==
    IF str # <<>> /\ str[Len(str)] \in Whitespace
    THEN RStrip(SubSeq(str, 1, Len(str) - 1))
    ELSE str

Strip(str) == RStrip(LStrip(str))

\* bleach.clean(text, tags=[]): no tag is allowed, and markup is escaped.
RECURSIVE Clean(_)
Clean(str) ==
    IF str = <<>> THEN <<>>
    ELSE LET c == Head(str)
         IN <<(CASE c = "<" -> "&lt;" [] c = ">" -> "&gt;" [] OTHER -> c)>>
            \o Clean(Tail(str))

\* re.compile(r"\n+").sub("</p><p>", text)
RECURSIVE SubNewlines(_)
SubNewlines(str) ==
    IF str = <<>> THEN <<>>
    ELSE IF Head(str) = "\n"
         THEN IF Len(str) > 1 /\ str[2] = "\n"
              THEN SubNewlines(Tail(str))
              ELSE <<"</p><p>">> \o SubNewlines(Tail(str))
         ELSE <<Head(str)>> \o SubNewlines(Tail(str))

\* bleach.linkify(text): a bare URL becomes an anchor around it.
RECURSIVE Linkify(_)
Linkify(str) ==
    IF str = <<>> THEN <<>>
    ELSE (IF Head(str) = "url"
          THEN <<"<a href=url rel=nofollow>", "url", "</a>">>
          ELSE <<Head(str)>>) \o Linkify(Tail(str))

\* "<p>" + linkify(r.sub("</p><p>", clean(value.strip(), tags=[]))) + "</p>"
Render(value) ==
    <<"<p>">> \o Linkify(SubNewlines(Clean(Strip(value)))) \o <<"</p>">>

\* on_change_body with the rendering inside the if: done on the first set only.
on_change_body_first_only(target, value, t) ==
    IF target.edit_time = None
    THEN [target EXCEPT !.edit_time = t, !.body_html = Render(value)]
    ELSE target

\* Comment.on_change_body(target, value, oldvalue, initiator) at time t:
\* a datetime is truthy, so "not target.edit_time" is "edit_time is None".
on_change_body(target, value, t) ==
    [target EXCEPT !.edit_time = IF @ = None THEN t ELSE @,
                   !.body_html = Render(value)]

(* ------------------------------------------------------------------ *)
(* State                                                               *)
(* ------------------------------------------------------------------ *)
VARIABLES
    roles,      \* the role table, by name
    u,          \* the User object last constructed, not yet committed
    users,      \* the user table: the committed users, by id
    now,        \* the clock, in seconds
    issued,     \* the last token issued: for whom, for how long, the token
    token,      \* the token the client holds
    comments,   \* the Comment objects
    ret         \* the last call and what it returned

vars == <<roles, u, users, now, issued, token, comments, ret>>

NoToken == [kind |-> "none", key |-> "None", val |-> None, iat |-> None,
            exp |-> None, sig |-> <<>>]

\* self is the receiver that issued the token, followed as the object is
\* committed (u becomes the committed user) or dropped (None).
NotIssued == [op |-> "none", self |-> None, uid |-> None, ttl |-> None,
              tok |-> NoToken]

NoComment == [exists |-> FALSE, body |-> <<>>, body_html |-> <<>>,
              timestamp |-> None, edit_time |-> None]

NoCall == [op |-> "none", self |-> None, arg |-> None, value |-> "None",
           id |-> None, raised |-> "None"]

Call(op, self, arg, value, id, raised) ==
    [op |-> op, self |-> self, arg |-> arg, value |-> value, id |-> id,
     raised |-> raised]

Init ==
    /\ roles = [n \in RoleNames |-> NoRow]
    /\ u = NoUser
    /\ users = [i \in 1..MaxUsers |-> NoUser]
    /\ now = 0
    /\ issued = NotIssued
    /\ token = NoToken
    /\ comments = [c \in 1..MaxComments |-> NoComment]
    /\ ret = NoCall

(* ------------------------------------------------------------------ *)
(* Operations on roles and on the role of a user                       *)
(* ------------------------------------------------------------------ *)
\* Role(name=..., permissions=..., default=...) added and committed; name
\* is unique.
CreateRole(name, perms, dflt) ==
    /\ ~roles[name].exists
    /\ roles' = [roles EXCEPT ![name] = Role_init(perms, dflt)]
    /\ UNCHANGED <<u, users, now, issued, token, comments, ret>>

InsertRoles ==
    /\ roles' = insert_roles(roles)
    /\ ret' = Call("insert_roles", None, None, "None", None, "None")
    /\ UNCHANGED <<u, users, now, issued, token, comments>>

\* User(email=..., role=...): role is NoRole when no role is given.
NewUser(email, role) ==
    /\ IF role = NoRole THEN TRUE ELSE roles[role].exists
    /\ \E r \in User_init_roles(roles, email, role) :
          u' = [exists |-> TRUE, id |-> None, email |-> email, role |-> r,
                active |-> FALSE, pending |-> FALSE,
                password_hash |-> <<>>,
                last_seen |-> None, _last_seen |-> None]
    /\ ret' = Call("User", 0, IF role = NoRole THEN 0 ELSE 1, "None", None,
                   "None")
    /\ issued' = [issued EXCEPT !.self = IF @ = 0 THEN None ELSE @]
    /\ UNCHANGED <<roles, users, now, token, comments>>

Can(perm) ==
    /\ u.exists
    /\ ret' = Call("can", 0, perm, User_can(roles, u, perm), None, "None")
    /\ UNCHANGED <<roles, u, users, now, issued, token, comments>>

IsAdmin ==
    /\ u.exists
    /\ ret' = Call("is_admin", 0, None, User_is_admin(roles, u), None, "None")
    /\ UNCHANGED <<roles, u, users, now, issued, token, comments>>

AnonymousCan(perm) ==
    /\ ret' = Call("anonymous_can", None, perm, AnonymousUser_can(perm), None,
                   "None")
    /\ UNCHANGED <<roles, u, users, now, issued, token, comments>>

AnonymousIsAdmin ==
    /\ ret' = Call("anonymous_is_admin", None, None, AnonymousUser_is_admin,
                   None, "None")
    /\ UNCHANGED <<roles, u, users, now, issued, token, comments>>

NextRoles ==
    \/ \E n \in RoleNames, p \in PriorMasks, d \in BOOLEAN : CreateRole(n, p, d)
    \/ InsertRoles
    \/ \E e \in Emails, r \in RoleNames \cup {NoRole} : NewUser(e, r)
    \/ \E p \in PermArgs : Can(p)
    \/ IsAdmin
    \/ \E p \in PermArgs : AnonymousCan(p)
    \/ AnonymousIsAdmin

SpecRoles == Init /\ [][NextRoles]_vars

(* ------------------------------------------------------------------ *)
(* Operations on users and tokens                                      *)
(* ------------------------------------------------------------------ *)
\* The receiver of a method: 0 is the object u, i >= 1 the committed user i.
Selfs == 0..MaxUsers

SelfObj(s) == IF s = 0 THEN u ELSE users[s]

\* expiration= arguments of the token generators, in seconds.
Ttls == 0..MaxTtl

\* The next primary key of the user table.
NextId == Cardinality({i \in 1..MaxUsers : users[i].exists}) + 1

\* The row an INSERT writes for a user: the primary key is assigned, and
\* the column default datetime.utcnow fills a last_seen left unset.
Inserted(user, id, t) ==
    [user EXCEPT !.id = id, !.pending = FALSE,
                 !.last_seen = IF @ = None THEN t ELSE @]

\* db.session.add(u); db.session.commit(): u gets the next id.
AddUser ==
    /\ u.exists
    /\ NextId <= MaxUsers
    /\ users' = [users EXCEPT ![NextId] = Inserted(u, NextId, now)]
    /\ u' = NoUser
    /\ issued' = [issued EXCEPT !.self = IF @ = 0 THEN NextId ELSE @]
    /\ UNCHANGED <<roles, now, token, comments, ret>>

Tick ==
    /\ now < MaxTime
    /\ now' = now + 1
    /\ UNCHANGED <<roles, u, users, issued, token, comments, ret>>

\* s.dumps({"confirm": self.id}); the token returned goes to the client.
GenerateActivationToken(self, expiration) ==
    /\ SelfObj(self).exists
    /\ LET tok == Dumps(SECRET_KEY, expiration, "confirm", SelfObj(self).id,
                        now)
       IN /\ token' = tok
          /\ issued' = [op |-> "generate_activation_token", self |-> self,
                        uid |-> SelfObj(self).id, ttl |-> expiration,
                        tok |-> tok]
    /\ ret' = Call("generate_activation_token", None, None, "Token", None,
                   "None")
    /\ UNCHANGED <<roles, u, users, now, comments>>

\* s.dumps({"id": self.id}); the token returned goes to the client.
GenerateAuthToken(self, expiration) ==
    /\ SelfObj(self).exists
    /\ LET tok == Dumps(SECRET_KEY, expiration, "id", SelfObj(self).id, now)
       IN /\ token' = tok
          /\ issued' = [op |-> "generate_auth_token", self |-> self,
                        uid |-> SelfObj(self).id, ttl |-> expiration,
                        tok |-> tok]
    /\ ret' = Call("generate_auth_token", None, None, "Token", None, "None")
    /\ UNCHANGED <<roles, u, users, now, comments>>

\* The client alters the token it was given.
Tamper ==
    /\ token.kind = "jws"
    /\ token = issued.tok
    /\ token' \in Alterations(token)
    /\ UNCHANGED <<roles, u, users, now, issued, comments, ret>>

\* self.active = True; db.session.add(self)
Activated(user) ==
    [user EXCEPT !.active = TRUE,
                 !.pending = IF user.id = None THEN TRUE ELSE @]

\* activate that refuses a user who is active already.
Activate_result_once(user, tok, t) ==
    IF BadData(SECRET_KEY, tok, t) \/ user.active THEN "False"
    ELSE IF DataGet(tok, "confirm") # user.id THEN "False"
    ELSE "True"

\* What activate(token) returns.
Activate_result(user, tok, t) ==
    IF BadData(SECRET_KEY, tok, t) THEN "False"
    ELSE IF DataGet(tok, "confirm") # user.id THEN "False"
    ELSE "True"

Activate(self) ==
    /\ SelfObj(self).exists
    /\ token.kind # "none"
    /\ LET res == Activate_result(SelfObj(self), token, now)
       IN /\ ret' = Call("activate", self, None, res, None, "None")
          /\ IF res = "True"
             THEN IF self = 0
                  THEN u' = Activated(u) /\ UNCHANGED users
                  ELSE users' = [users EXCEPT ![self] = Activated(@)]
                       /\ UNCHANGED u
             ELSE UNCHANGED <<u, users>>
    /\ UNCHANGED <<roles, now, issued, token, comments>>

\* User.query.get(id): the id of the row found, or None.
QueryGet(id) ==
    IF id \in 1..MaxUsers /\ users[id].exists THEN id ELSE None

\* What verify_auth_token(token) returns or raises.
VerifyAuthToken_result(tok, t) ==
    IF BadData(SECRET_KEY, tok, t)
    THEN Call("verify_auth_token", None, None, "None", None, "None")
    ELSE IF tok.key # "id"
    THEN Call("verify_auth_token", None, None, "None", None, "KeyError")
    ELSE LET found == QueryGet(tok.val)
         IN Call("verify_auth_token", None, None,
                 IF found = None THEN "None" ELSE "User", found, "None")

VerifyAuthToken ==
    /\ token.kind # "none"
    /\ ret' = VerifyAuthToken_result(token, now)
    /\ UNCHANGED <<roles, u, users, now, issued, token, comments>>

NextTokens ==
    \/ NewUser("brian@example.com", NoRole)
    \/ AddUser
    \/ Tick
    \/ \E s \in Selfs, t \in Ttls : GenerateActivationToken(s, t)
    \/ \E s \in Selfs, t \in Ttls : GenerateAuthToken(s, t)
    \/ Tamper
    \/ \E s \in Selfs : Activate(s)
    \/ VerifyAuthToken

SpecTokens == Init /\ [][NextTokens]_vars

(* ------------------------------------------------------------------ *)
(* Operations on a user's password and last_seen                       *)
(* ------------------------------------------------------------------ *)
\* user.password = password
SetPassword(self, password) ==
    /\ SelfObj(self).exists
    /\ \E salt \in Salts :
          IF self = 0
          THEN u' = User_password_set(u, password, salt) /\ UNCHANGED users
          ELSE users' = [users EXCEPT
                            ![self] = User_password_set(@, password, salt)]
               /\ UNCHANGED u
    /\ ret' = Call("password_set", self, None, "None", None, "None")
    /\ UNCHANGED <<roles, now, issued, token, comments>>

\* user.password
ReadPassword(self) ==
    /\ SelfObj(self).exists
    /\ ret' = Call("password_get", self, None, "None", None,
                   User_password_get(SelfObj(self)))
    /\ UNCHANGED <<roles, u, users, now, issued, token, comments>>

\* seen(), line 89: self._last_seen = datetime.utcnow()
User_seen(user, t) == [user EXCEPT !._last_seen = t]

\* user.seen(): the assignment, db.session.add(self), db.session.commit().
\* The commit inserts every object of the session that has no row yet:
\* the receiver if it is u, and u if an earlier activate added it.
Seen(self) ==
    /\ SelfObj(self).exists
    /\ IF self = 0
       THEN /\ NextId <= MaxUsers
            /\ users' = [users EXCEPT
                             ![NextId] = Inserted(User_seen(u, now), NextId, now)]
            /\ u' = NoUser
            /\ issued' = [issued EXCEPT !.self = IF @ = 0 THEN NextId ELSE @]
       ELSE IF u.exists /\ u.pending
       THEN /\ NextId <= MaxUsers
            /\ users' = [users EXCEPT
                             ![self] = User_seen(@, now),
                             ![NextId] = Inserted(u, NextId, now)]
            /\ u' = NoUser
            /\ issued' = [issued EXCEPT !.self = IF @ = 0 THEN NextId ELSE @]
       ELSE /\ users' = [users EXCEPT ![self] = User_seen(@, now)]
            /\ UNCHANGED <<u, issued>>
    /\ ret' = Call("seen", self, None, "None", None, "None")
    /\ UNCHANGED <<roles, now, token, comments>>

NextUsers ==
    \/ NewUser("brian@example.com", NoRole)
    \/ AddUser
    \/ Tick
    \/ \E s \in Selfs, p \in Passwords : SetPassword(s, p)
    \/ \E s \in Selfs : ReadPassword(s)
    \/ \E s \in Selfs : Seen(s)

SpecUsers == Init /\ [][NextUsers]_vars

(* ------------------------------------------------------------------ *)
(* Operations on comments                                              *)
(* ------------------------------------------------------------------ *)
CommentIds == 1..MaxComments

\* Comment(body=value, ...): the constructor sets body, which fires the
\* "set" event of Comment.body before the value is stored.
NewComment(c, value) ==
    /\ ~comments[c].exists
    /\ comments' = [comments EXCEPT ![c] =
          [on_change_body([NoComment EXCEPT !.exists = TRUE], value, now)
             EXCEPT !.body = value]]
    /\ ret' = Call("Comment", c, None, "None", None, "None")
    /\ UNCHANGED <<roles, u, users, now, issued, token>>

\* db.session.add(c); db.session.commit(): the INSERT fills timestamp with
\* its default, datetime.utcnow.
CommitComment(c) ==
    /\ comments[c].exists
    /\ comments[c].timestamp = None
    /\ comments' = [comments EXCEPT ![c].timestamp = now]
    /\ ret' = Call("commit", c, None, "None", None, "None")
    /\ UNCHANGED <<roles, u, users, now, issued, token>>

\* comment.body = value: the "set" event, then the value is stored.
SetBody(c, value) ==
    /\ comments[c].exists
    /\ comments' = [comments EXCEPT ![c] =
          [on_change_body(@, value, now) EXCEPT !.body = value]]
    /\ ret' = Call("set_body", c, None, "None", None, "None")
    /\ UNCHANGED <<roles, u, users, now, issued, token>>

NextComments ==
    \/ Tick
    \/ \E c \in CommentIds, v \in Bodies : NewComment(c, v)
    \/ \E c \in CommentIds : CommitComment(c)
    \/ \E c \in CommentIds, v \in Bodies : SetBody(c, v)

SpecComments == Init /\ [][NextComments]_vars

(* ------------------------------------------------------------------ *)
(* Claims about tokens                                                 *)
(* ------------------------------------------------------------------ *)
\* The token presented is the one issued, byte for byte.
Intact == token = issued.tok

\* The second after which the issued token is expired: iat + ttl.
IssuedExpiry == issued.tok.iat + issued.ttl

\* C1: verify_auth_token never raises to the caller, whatever the token.
C1_VerifyNeverRaises ==
    ret.op = "verify_auth_token" => ret.raised = "None"

\* C2: activate fails closed: on a token that is malformed, was altered
\* after issue (bad signature), is expired, or is an activation token with
\* another id than the user's, it returns False, raises nothing and changes
\* no user.
C2_ActivateFailsClosed ==
    [][\A s \in Selfs : Activate(s) =>
          ((\/ token.kind = "garbage"
            \/ ~Intact
            \/ now > IssuedExpiry
            \/ /\ issued.op = "generate_activation_token"
               /\ issued.uid # SelfObj(s).id)
           => /\ ret'.value = "False" /\ ret'.raised = "None"
              /\ u' = u /\ users' = users)]_vars

\* activate refused a token issued for the uncommitted u and altered to
\* carry the id of the committed user it was then tried on.
C2_Witness ==
    /\ ret.op = "activate" /\ ret.value = "False" /\ ret.self = 1
    /\ users[1].exists /\ ~users[1].active
    /\ issued.op = "generate_activation_token" /\ issued.uid = None
    /\ ~Intact /\ token.kind = "jws" /\ token.val = 1 /\ now <= token.exp

\* C3 as amended: a user whose id is still the one it had when it issued
\* the activation token is activated by that token, on every call up to
\* the token's expiry, active already or not.
C3_ActivateRoundTrip ==
    [][\A s \in Selfs : Activate(s) =>
          ((/\ Intact
            /\ issued.op = "generate_activation_token"
            /\ issued.self = s
            /\ issued.uid = SelfObj(s).id
            /\ now <= IssuedExpiry)
           => /\ ret'.value = "True"
              /\ (IF s = 0 THEN u' ELSE users'[s]).active)]_vars

\* A committed user that was active already was activated again.
C3_Witness ==
    /\ ret.op = "activate" /\ ret.value = "True" /\ ret.self = 1
    /\ users[1].active
    /\ Intact /\ issued.op = "generate_activation_token" /\ issued.self = 1
    /\ now = IssuedExpiry /\ issued.ttl = 1

\* C3 as stated: every user is activated by the token it issued, on every
\* call before the token expires.
C3_Original ==
    [][\A s \in Selfs : Activate(s) =>
          ((/\ Intact
            /\ issued.op = "generate_activation_token"
            /\ issued.self = s
            /\ now <= IssuedExpiry)
           => /\ ret'.value = "True"
              /\ (IF s = 0 THEN u' ELSE users'[s]).active)]_vars

\* C4: the auth token of a stored user, presented as issued, gives the user
\* with that id up to the second iat + ttl and None after it; altered after
\* issue it gives None.
C4_AuthRoundTrip ==
    [][(/\ VerifyAuthToken
        /\ issued.op = "generate_auth_token"
        /\ issued.uid # None)
       => /\ ret'.raised = "None"
          /\ (Intact /\ now <= IssuedExpiry)
                => ret'.value = "User" /\ ret'.id = issued.uid
          /\ (Intact /\ now > IssuedExpiry)
                => ret'.value = "None" /\ ret'.id = None
          /\ ~Intact => ret'.value = "None" /\ ret'.id = None]_vars

\* An auth token was accepted within its ttl.
C4_Witness ==
    /\ ret.op = "verify_auth_token" /\ ret.value = "User" /\ ret.id = 1
    /\ issued.op = "generate_auth_token" /\ issued.uid = 1 /\ issued.ttl = 1
    /\ Intact /\ now <= IssuedExpiry

(* ------------------------------------------------------------------ *)
(* Claims about the password and last_seen                             *)
(* ------------------------------------------------------------------ *)
\* The receiver after the step.
SelfObjNext(s) == IF s = 0 THEN u' ELSE users'[s]

SeenRow(s) == IF s = 0 THEN users'[NextId] ELSE users'[s]

\* C12: after seen() returns, the user's persisted last_seen equals the
\* time of the call, and no other persisted field of the user (email,
\* role, active, password_hash) has changed.
C12_SeenSetsLastSeen ==
    [][\A s \in Selfs : Seen(s) =>
          /\ SeenRow(s).last_seen = now
          /\ SeenRow(s).email = SelfObj(s).email
          /\ SeenRow(s).role = SelfObj(s).role
          /\ SeenRow(s).active = SelfObj(s).active
          /\ SeenRow(s).password_hash = SelfObj(s).password_hash]_vars

\* C13: a token issued by generate_auth_token, for any user, never
\* activates: on every user, with or without an id yet, activate(token)
\* returns False and leaves the user (its active flag) as it was.
C13_AuthTokenNeverActivates ==
    [][\A s \in Selfs :
          (Activate(s) /\ Intact /\ issued.op = "generate_auth_token") =>
              /\ ret'.value = "False"
              /\ u' = u /\ users' = users]_vars

C9_EditTimeLifecycle ==
    [][/\ \A c \in CommentIds, v \in Bodies :
             NewComment(c, v) => comments'[c].edit_time = None
       /\ \A c \in CommentIds, v \in Bodies :
             (SetBody(c, v) /\ v # comments[c].body) =>
                /\ comments'[c].edit_time = now
                /\ comments'[c].edit_time # None
                /\ comments[c].timestamp # None =>
                      comments'[c].edit_time >= comments[c].timestamp]_vars

\* C10: every comment's body_html is the rendering of its current body.
C10_RenderedBodyInSync ==
    \A c \in CommentIds :
       comments[c].exists => comments[c].body_html = Render(comments[c].body)

\* A comment's body was changed and its rendering is the new body's.
C10_Witness ==
    /\ ret.op = "set_body" /\ ret.self = 1
    /\ comments[1].edit_time < now
    /\ comments[1].body = <<"a", " ", "url", "\n", "b">>
    /\ comments[1].body_html =
          <<"<p>", "a", " ", "<a href=url rel=nofollow>", "url", "</a>",
            "</p><p>", "b", "</p>">>

(* ------------------------------------------------------------------ *)
(* Claims about the role table and authorization                       *)
(* ------------------------------------------------------------------ *)
\* Bit b (a power of two) is set in mask m.
HasBit(m, b) == (m \div b) % 2 = 1

\* The mask with exactly the bits of the set bs.
RECURSIVE MaskOf(_)
MaskOf(bs) ==
    IF bs = {} THEN 0
    ELSE LET b == CHOOSE x \in bs : TRUE IN b + MaskOf(bs \ {b})

\* C5: insert_roles converges from any prior role table: after it, the
\* roles user, moderator and admin exist with the masks 3, 11 and 31
\* exactly, whatever they held before, and a second run changes nothing.
C5_InsertRolesConverges ==
    [][InsertRoles =>
          /\ roles'["user"].exists /\ roles'["moderator"].exists
          /\ roles'["admin"].exists
          /\ roles'["user"].permissions = MaskOf({FOLLOW, COMMENT})
          /\ roles'["user"].permissions = 3
          /\ roles'["moderator"].permissions = MaskOf({FOLLOW, COMMENT, MODERATE})
          /\ roles'["moderator"].permissions = 11
          /\ roles'["admin"].permissions = MaskOf(PermBits)
          /\ roles'["admin"].permissions = 31
          /\ insert_roles(roles') = roles']_vars

\* insert_roles has run on a table that held a role of its own besides.
C5_Witness ==
    /\ ret.op = "insert_roles"
    /\ roles["guest"].exists /\ roles["guest"].permissions = 36
    /\ roles["user"].permissions = 3
    /\ roles["moderator"].permissions = 11
    /\ roles["admin"].permissions = 31

\* C6: after insert_roles, from any prior role table, exactly one role is
\* flagged default and it is user.
C6_OneDefaultAfterSeed ==
    [][InsertRoles => DefaultQuery(roles') = {"user"}]_vars

\* C7 as amended: with no explicit role a new user gets the admin role when
\* its email is ADMIN_ADDRESS and a role named admin exists; otherwise (also
\* for the admin address while no admin role exists) a role flagged default,
\* and no role when none is flagged; an explicit role is kept.
C7_RoleAtCreation ==
    [][\A e \in Emails, r \in RoleNames \cup {NoRole} :
          NewUser(e, r) =>
             IF r # NoRole THEN u'.role = r
             ELSE IF e = ADMIN_ADDRESS /\ roles["admin"].exists
                  THEN u'.role = "admin"
             ELSE IF \E n \in RoleNames : roles[n].exists /\ roles[n].default
                  THEN roles[u'.role].exists /\ roles[u'.role].default
             ELSE u'.role = NoRole]_vars

\* A user made with the admin address and no explicit role holds admin.
C7_Witness ==
    /\ ret.op = "User" /\ ret.arg = 0
    /\ u.email = ADMIN_ADDRESS /\ u.role = "admin"
    /\ roles["user"].exists /\ roles["user"].default

\* C7 as stated: the admin address gets the admin role (none when there is
\* no such role), any other address the default role.
C7_Original ==
    [][\A e \in Emails : NewUser(e, NoRole) =>
          IF e = ADMIN_ADDRESS
          THEN u'.role = (IF roles["admin"].exists THEN "admin" ELSE NoRole)
          ELSE IF \E n \in RoleNames : roles[n].exists /\ roles[n].default
               THEN roles[u'.role].exists /\ roles[u'.role].default
               ELSE u'.role = NoRole]_vars

\* C8: can(user, perm) is false when the user has no role and otherwise
\* true exactly when every bit of perm is in the role's mask; is_admin is
\* can(ADMIN); the anonymous identity's can and is_admin are false.
C8_Authorization ==
    [][/\ \A p \in PermArgs : Can(p) =>
             Truthy(ret'.value) =
                (/\ u.role # NoRole
                 /\ \A b \in PermBits :
                       HasBit(p, b) => HasBit(roles[u.role].permissions, b))
       /\ IsAdmin =>
             Truthy(ret'.value) =
                (u.role # NoRole /\ HasBit(roles[u.role].permissions, ADMIN))
       /\ \A p \in PermArgs : AnonymousCan(p) => ~Truthy(ret'.value)
       /\ AnonymousIsAdmin => ~Truthy(ret'.value)]_vars

\* can was granted to a user through its role's mask.
C8_Witness ==
    /\ ret.op = "can" /\ ret.arg = FOLLOW + COMMENT /\ ret.value = "True"
    /\ u.role = "user" /\ roles["user"].permissions = 3

====
